---- MODULE Spec2Model ----
(***************************************************************************)
(* A model of the soupbintcp package: the frame reassembler (stream.py),   *)
(* the packet codec (packets.py), the connection engine (protocol.py) and  *)
(* the server and client sessions (server.py, client.py).                  *)
(*                                                                         *)
(* Bytes are naturals 0..255; a byte string is a sequence of them.  Text   *)
(* is encoded as its ASCII codes.                                          *)
(***************************************************************************)
EXTENDS Integers, Sequences, FiniteSets, TLC

(***************************************************************************)
(* Bounds of the model.                                                    *)
(***************************************************************************)
\* Packets encoded on the wire handed to the stream harness.
MaxPackets == 2
\* Largest number of bytes handed to the stream in one call of the harness.
MaxChunk == 3
\* Frames the peer of a connection sends.
MaxSends == 2
\* Bytes of a frame that may arrive ahead of the rest of it.
FragmentSize == 2

(***************************************************************************)
(* packets.py: PacketType, the wire value of each type (one ASCII byte).   *)
(***************************************************************************)
SEQUENCED_DATA == 83
UNSEQUENCED_DATA == 85
LOGIN_REQUEST == 76
LOGIN_ACCEPTED == 65
LOGIN_REJECTED == 74
LOGOUT_REQUEST == 79
CLIENT_HEARTBEAT == 82
SERVER_HEARTBEAT == 72
END_OF_SESSION == 90
DEBUG == 43

PacketType ==
    { SEQUENCED_DATA, UNSEQUENCED_DATA, LOGIN_REQUEST, LOGIN_ACCEPTED,
      LOGIN_REJECTED, LOGOUT_REQUEST, CLIENT_HEARTBEAT, SERVER_HEARTBEAT,
      END_OF_SESSION, DEBUG }

(***************************************************************************)
(* Python sequence helpers.                                                *)
(***************************************************************************)
Min(a, b) == IF a < b THEN a ELSE b
Max(a, b) == IF a > b THEN a ELSE b

\* b[i:j] for 0 <= i, 0 <= j: the bytes at 0-based positions i .. j-1 that exist.
PySlice(b, i, j) ==
    IF Min(j, Len(b)) <= i THEN << >> ELSE SubSeq(b, i + 1, Min(j, Len(b)))

\* del b[:j]
PyDelFront(b, j) ==
    IF j >= Len(b) THEN << >> ELSE SubSeq(b, Max(j, 0) + 1, Len(b))

(***************************************************************************)
(* packets.py: Header, a big-endian uint16 length and a one-byte type.     *)
(***************************************************************************)
HeaderSize == 3

\* Header.from_buffer(buffer).packet_length
PacketLength(b) == b[1] * 256 + b[2]

\* Header.from_buffer(buffer).packet_type
HeaderType(b) == b[3]

\* Header.payload_length
PayloadLength(b) == PacketLength(b) - 1

\* Header(packet_length, packet_type).to_bytes()
HeaderBytes(length, type) == << (length \div 256) % 256, length % 256, type >>

\* create_packet(packet_type, payload)
create_packet(type, payload) == HeaderBytes(Len(payload) + 1, type) \o payload

\* The Packet dataclass.
Packet(length, type, payload) ==
    [length |-> length, type |-> type, payload |-> payload]

(***************************************************************************)
(* stream.py: Stream.  Its state is the buffer, the processed count and    *)
(* the configured data type.  The result of a call is [kind, packet]:      *)
(* kind "packet" with the Packet, "none" for None, "ValueError" when       *)
(* PacketType(header.packet_type) raises.                                  *)
(***************************************************************************)
NoPacket == Packet(0, 0, << >>)
RetNone == [kind |-> "none", packet |-> NoPacket]
RetError == [kind |-> "ValueError", packet |-> NoPacket]
RetPacket(p) == [kind |-> "packet", packet |-> p]

\* A faulty has_packet that looks at the header only; C1 must tell it from
\* Stream.has_packet.
has_packet_header_only(b) == Len(b) >= HeaderSize

\* Stream.has_packet
has_packet(b) ==
    IF Len(b) < HeaderSize THEN FALSE
    ELSE IF Len(b) - HeaderSize < PayloadLength(b) THEN FALSE
    ELSE TRUE

\* Stream.feed
feed(b, data) == b \o data

\* A faulty get_packet that removes packet_length bytes after the header, one
\* more than the payload; C10 must tell it from Stream.get_packet.
get_packet_one_more(b, n, dtype) ==
    IF has_packet(b)
    THEN [ret |-> RetPacket(Packet(PacketLength(b), HeaderType(b),
                     PySlice(b, HeaderSize, HeaderSize + PayloadLength(b)))),
          buf |-> PyDelFront(b, HeaderSize + PacketLength(b)),
          processed |-> IF HeaderType(b) = dtype THEN n + 1 ELSE n]
    ELSE [ret |-> RetNone, buf |-> b, processed |-> n]

\* A faulty get_packet that counts every packet it returns; C11 must tell it
\* from Stream.get_packet.
get_packet_counts_all(b, n, dtype) ==
    IF has_packet(b) /\ HeaderType(b) \in PacketType
    THEN [ret |-> RetPacket(Packet(PacketLength(b), HeaderType(b),
                     PySlice(b, HeaderSize, HeaderSize + PayloadLength(b)))),
          buf |-> PyDelFront(b, HeaderSize + PayloadLength(b)),
          processed |-> n + 1]
    ELSE [ret |-> IF has_packet(b) THEN RetError ELSE RetNone,
          buf |-> b, processed |-> n]

\* A faulty get_packet that removes the frame before it rejects its type
\* byte; C24 must tell it from Stream.get_packet.
get_packet_drops_unknown(b, n, dtype) ==
    IF has_packet(b)
    THEN IF HeaderType(b) \notin PacketType
         THEN [ret |-> RetError, buf |-> PyDelFront(b, HeaderSize + PayloadLength(b)),
               processed |-> n]
         ELSE [ret |-> RetPacket(Packet(PacketLength(b), HeaderType(b),
                          PySlice(b, HeaderSize, HeaderSize + PayloadLength(b)))),
               buf |-> PyDelFront(b, HeaderSize + PayloadLength(b)),
               processed |-> IF HeaderType(b) = dtype THEN n + 1 ELSE n]
    ELSE [ret |-> RetNone, buf |-> b, processed |-> n]

get_packet(b, n, dtype) ==
    IF has_packet(b)
    THEN LET offset_to_next_packet == HeaderSize + PayloadLength(b)
         IN  IF HeaderType(b) \notin PacketType
             THEN [ret |-> RetError, buf |-> b, processed |-> n]
             ELSE [ret |-> RetPacket(Packet(PacketLength(b), HeaderType(b),
                                  PySlice(b, HeaderSize, offset_to_next_packet))),
                   buf |-> PyDelFront(b, offset_to_next_packet),
                   processed |-> IF HeaderType(b) = dtype THEN n + 1 ELSE n]
    ELSE [ret |-> RetNone, buf |-> b, processed |-> n]

\* Stream.get_packets with data already fed, iterated to its end:
\* [packets, buf, processed, raised].
RECURSIVE get_packets(_, _, _)
get_packets(b, n, dtype) ==
    LET r == get_packet(b, n, dtype)
    IN  IF r.ret.kind = "packet"
        THEN LET rest == get_packets(r.buf, r.processed, dtype)
             IN  [rest EXCEPT !.packets = << r.ret.packet >> \o @]
        ELSE [packets |-> << >>, buf |-> r.buf, processed |-> r.processed,
              raised |-> r.ret.kind = "ValueError"]

(***************************************************************************)
(* Text fields of the login payloads (packets.py): fixed width, padded     *)
(* with spaces; numbers are decimal text.                                  *)
(***************************************************************************)
\* ' ' and '0'
SPACE == 32
DIGIT0 == 48

\* Widths of the c_char array fields.
USERNAME_SIZE == 6
PASSWORD_SIZE == 10
SESSION_SIZE == 10
SEQUENCE_NUMBER_SIZE == 20
LoginRequestSize ==
    USERNAME_SIZE + PASSWORD_SIZE + SESSION_SIZE + SEQUENCE_NUMBER_SIZE
LoginAcceptedSize == SESSION_SIZE + SEQUENCE_NUMBER_SIZE

Spaces(n) == [i \in 1..n |-> SPACE]

\* str.ljust(w), str.rjust(w): a text longer than w is returned as it is.
ljust(t, w) == IF Len(t) >= w THEN t ELSE t \o Spaces(w - Len(t))
rjust(t, w) == IF Len(t) >= w THEN t ELSE Spaces(w - Len(t)) \o t

\* str(n) for n >= 0
RECURSIVE str(_)
str(n) == IF n < 10 THEN << DIGIT0 + n >> ELSE str(n \div 10) \o << DIGIT0 + (n % 10) >>

\* White space as str.strip() and int() see it.
IsSpace(c) == c \in { 9, 10, 11, 12, 13, SPACE }

RECURSIVE lstrip(_)
lstrip(t) == IF t # << >> /\ IsSpace(Head(t)) THEN lstrip(Tail(t)) ELSE t
RECURSIVE rstrip(_)
rstrip(t) ==
    IF t # << >> /\ IsSpace(t[Len(t)]) THEN rstrip(SubSeq(t, 1, Len(t) - 1)) ELSE t
\* str.strip()
strip(t) == rstrip(lstrip(t))

\* The value of a c_char array field: its bytes up to the first NUL.
RECURSIVE c_chars(_)
c_chars(t) ==
    IF t = << >> \/ Head(t) = 0 THEN << >> ELSE << Head(t) >> \o c_chars(Tail(t))

IsDigits(t) == t # << >> /\ \A i \in 1..Len(t) : t[i] \in DIGIT0..(DIGIT0 + 9)
RECURSIVE DigitsValue(_)
DigitsValue(t) ==
    IF t = << >> THEN 0
    ELSE 10 * DigitsValue(SubSeq(t, 1, Len(t) - 1)) + (t[Len(t)] - DIGIT0)
\* int(text) for unsigned decimal text: [ok, value]; ok is FALSE where int()
\* raises ValueError.
int(t) ==
    IF IsDigits(strip(t)) THEN [ok |-> TRUE, value |-> DigitsValue(strip(t))]
    ELSE [ok |-> FALSE, value |-> 0]

\* LoginRequest.new(...).to_bytes()
LoginRequestBytes(username, password, requested_session, requested_sequence_number) ==
    ljust(username, USERNAME_SIZE) \o ljust(password, PASSWORD_SIZE)
        \o ljust(requested_session, SESSION_SIZE)
        \o rjust(str(requested_sequence_number), SEQUENCE_NUMBER_SIZE)

\* LoginRequest.from_buffer_copy(payload): the four fields.
LoginRequestFields(payload) ==
    [username |-> c_chars(PySlice(payload, 0, USERNAME_SIZE)),
     password |-> c_chars(PySlice(payload, USERNAME_SIZE, USERNAME_SIZE + PASSWORD_SIZE)),
     requested_session |->
         c_chars(PySlice(payload, USERNAME_SIZE + PASSWORD_SIZE,
                         USERNAME_SIZE + PASSWORD_SIZE + SESSION_SIZE)),
     requested_sequence_number |->
         c_chars(PySlice(payload, USERNAME_SIZE + PASSWORD_SIZE + SESSION_SIZE,
                         LoginRequestSize))]

\* LoginAccepted.new(session, sequence_number).to_bytes()
LoginAcceptedBytes(session, sequence_number) ==
    ljust(session, SESSION_SIZE) \o rjust(str(sequence_number), SEQUENCE_NUMBER_SIZE)

\* LoginAccepted.from_buffer_copy(payload): the two fields.
LoginAcceptedFields(payload) ==
    [session |-> c_chars(PySlice(payload, 0, SESSION_SIZE)),
     sequence_number |-> c_chars(PySlice(payload, SESSION_SIZE, LoginAcceptedSize))]

\* errors.py: LoginRejectCode
NOT_AUTHORIZED == 65
SESSION_NOT_AVAILABLE == 83

(***************************************************************************)
(* Configuration of a connection.  Times are whole seconds.                *)
(***************************************************************************)
\* The heartbeat_interval, heartbeat_timeout (which must exceed it) and
\* login_timeout the connection is constructed with.
HeartbeatInterval == 2
HeartbeatTimeout == 4
LoginTimeout == 1

\* serve(TestServer, "localhost", 20000, "test", "password")
Username == << 116, 101, 115, 116 >>
Password == << 112, 97, 115, 115, 119, 111, 114, 100 >>

\* Heartbeat frames kept in the log of writes; later ones are written and
\* not logged.
MaxHeartbeats == 2

(***************************************************************************)
(* protocol.py: Protocol.  A connection c is a record of the fields of the *)
(* Protocol object (and of its Stream, its Server or Client subclass and   *)
(* its tasks):                                                             *)
(*   buf, processed, data_type   the Stream                                *)
(*   heartbeat_type                                                        *)
(*   tx_elapsed, rx_elapsed      time.time() - last_tx_mills / last_rx_mills,*)
(*                               counted up to one past the limit each is  *)
(*                               compared with                             *)
(*   session, sequence_number, error                                       *)
(*   transport                   "open", "closed" (transport.close() was   *)
(*                               called), "lost" (the peer closed)         *)
(*   written                     every transport.write(data), in order     *)
(*   keep_alive_task             "None", "ready" (created or woken),       *)
(*                               "sleeping", "cancelled"                   *)
(*   keep_alive_sleep            seconds left of asyncio.sleep             *)
(*   authenticated               Server._authenticated is set              *)
(*   service                     Server._service, the task running serve():*)
(*                               "none", "start" (created), "recv_wait"    *)
(*                               (in _has_packet.wait()), "woken",         *)
(*                               "running", "auth_wait" (in wait_for),     *)
(*                               "done", "failed"                          *)
(*   service_exc                 the exception that ended the task         *)
(*   packet                      the packet dispatch() is holding          *)
(*   auth_left                   seconds left of wait_for's timeout        *)
(*   handled                     every call of a non-login handler         *)
(*   login_seen                  the fields on_login_request decoded       *)
(*   client                      the task running the client application  *)
(*                               (connect(), then `async for packet in c`):*)
(*                               "none", "start", "login_wait" and         *)
(*                               "recv_wait" (in _has_packet.wait()),      *)
(*                               "login_woken", "woken", "stopped" (the    *)
(*                               iteration ended), "failed"                *)
(*   client_exc                  the exception that ended it               *)
(*   delivered                   the packets the iteration yielded         *)
(*   login_accepted              the payload of the LoginAccepted packet   *)
(*                               Client.login decoded                      *)
(***************************************************************************)
IsHeartbeat(data) ==
    Len(data) = HeaderSize /\ data[3] \in { SERVER_HEARTBEAT, CLIENT_HEARTBEAT }

LogWrite(w, data) ==
    IF IsHeartbeat(data)
       /\ Cardinality({ i \in 1..Len(w) : IsHeartbeat(w[i]) }) >= MaxHeartbeats
    THEN w
    ELSE Append(w, data)

\* Protocol.received
received(c) == c.processed

\* Protocol.next_sequence_number
next_sequence_number(c) == c.sequence_number + received(c)

\* Protocol.send_raw
send_raw(c, data) == [c EXCEPT !.tx_elapsed = 0, !.written = LogWrite(@, data)]

\* Protocol.send
send(c, type, payload) == send_raw(c, create_packet(type, payload))

\* self._transport.is_closing()
is_closing(c) == c.transport # "open"

\* self._transport.close()
transport_close(c) ==
    IF c.transport = "open" THEN [c EXCEPT !.transport = "closed"] ELSE c

\* An exception leaves the coroutine of the serve task: the task ends with it.
Raise(c, e) == [c EXCEPT !.service = "failed", !.service_exc = e]

\* self._service.set_exception(...): asyncio.Task.set_exception raises
\* RuntimeError('Task does not support set_exception operation').
task_set_exception(c) == Raise(c, "RuntimeError")

\* Protocol.start_keep_alive
start_keep_alive(c) ==
    IF c.keep_alive_task = "None" THEN [c EXCEPT !.keep_alive_task = "ready"] ELSE c

\* Protocol.stop_keep_alive
stop_keep_alive(c) ==
    IF c.keep_alive_task # "None" THEN [c EXCEPT !.keep_alive_task = "cancelled"] ELSE c

\* A faulty keep_alive that sends a heartbeat at every tick; C14 must tell it
\* from Protocol.keep_alive.
keep_alive_every_tick(c) ==
    [send(c, c.heartbeat_type, << >>)
        EXCEPT !.keep_alive_task = "sleeping", !.keep_alive_sleep = HeartbeatInterval]

\* Protocol.keep_alive(run_forever=True), from one asyncio.sleep to the next.
keep_alive(c) ==
    LET c1 == IF c.rx_elapsed > HeartbeatTimeout
              THEN [c EXCEPT !.error = "HeartbeatTimeoutError"] ELSE c
        c2 == IF c1.tx_elapsed > HeartbeatInterval
              THEN send(c1, c1.heartbeat_type, << >>) ELSE c1
    IN  [c2 EXCEPT !.keep_alive_task = "sleeping", !.keep_alive_sleep = HeartbeatInterval]

(***************************************************************************)
(* server.py: Server.                                                      *)
(***************************************************************************)
\* Server.close
close(c) == task_set_exception(transport_close(stop_keep_alive(c)))

\* A faulty authenticate that does not look at the session; C3 must tell it
\* from Server.authenticate.
authenticate_any_session(c, username, password, session) ==
    IF Username = username /\ Password = password THEN 0 ELSE NOT_AUTHORIZED

\* Server.authenticate: 0 for None, else the LoginRejectCode.
authenticate(c, username, password, session) ==
    IF Username = username /\ Password = password
    THEN IF c.session = session THEN 0 ELSE SESSION_NOT_AVAILABLE
    ELSE NOT_AUTHORIZED

\* A faulty accept that forgets the LoginAccepted reply; C23 must tell it
\* from Server.accept.
accept_without_reply(c, session, sequence_number) ==
    start_keep_alive([c EXCEPT !.authenticated = TRUE])

\* Server.accept
accept(c, session, sequence_number) ==
    start_keep_alive(
        [send(c, LOGIN_ACCEPTED, LoginAcceptedBytes(session, sequence_number))
            EXCEPT !.authenticated = TRUE])

\* A faulty reject that leaves the connection open; C9 must tell it from
\* Server.reject.
reject_without_close(c, reason) == send(c, LOGIN_REJECTED, << reason >>)

\* Server.reject
reject(c, reason) == close(send(c, LOGIN_REJECTED, << reason >>))

\* Server.on_login_request, with the LoginRequest.from_buffer_copy of its caller.
on_login_request(c, payload) ==
    IF Len(payload) < LoginRequestSize THEN Raise(c, "ValueError")
    ELSE LET f == LoginRequestFields(payload)
             username == strip(f.username)
             password == strip(f.password)
             requested_session == strip(f.requested_session)
             requested_sequence_number == int(strip(f.requested_sequence_number))
         IN  IF ~requested_sequence_number.ok THEN Raise(c, "ValueError")
             ELSE LET c1 == [c EXCEPT !.login_seen =
                                 << [username |-> username, password |-> password,
                                     requested_session |-> requested_session,
                                     requested_sequence_number |->
                                         requested_sequence_number.value] >>]
                      reject_reason ==
                          authenticate(c1, username, password, requested_session)
                  IN  IF reject_reason # 0 THEN reject(c1, reject_reason)
                      ELSE accept(c1, requested_session,
                                  requested_sequence_number.value)

\* A non-login handler is entered.
Invoke(c, handler, p) ==
    [c EXCEPT !.handled = Append(@, [handler |-> handler, type |-> p.type,
                                     authenticated |-> c.authenticated])]

\* Server.on_logout_request
on_logout_request(c, p) == close(Invoke(c, "on_logout_request", p))

\* Server.on_unsequenced_data, as the application overrides it.
on_unsequenced_data(c, p) == Invoke(c, "on_unsequenced_data", p)

\* Server.on_client_heartbeat
on_client_heartbeat(c, p) == Invoke(c, "on_client_heartbeat", p)

\* Server.on_debug
on_debug(c, p) == send(Invoke(c, "on_debug", p), DEBUG, p.payload)

\* A faulty wait_authentication that never waits; C2 must tell it from
\* Server.wait_authentication.
wait_authentication_skipped(c) == TRUE

\* Server.wait_authentication: whether the wait ends without suspending.
wait_authentication(c) == c.authenticated

\* Server.dispatch from the end of wait_authentication.
dispatch_authenticated(c, p) ==
    IF p.type = LOGOUT_REQUEST THEN on_logout_request(c, p)
    ELSE IF p.type = UNSEQUENCED_DATA THEN on_unsequenced_data(c, p)
    ELSE IF p.type = CLIENT_HEARTBEAT THEN on_client_heartbeat(c, p)
    ELSE IF p.type = DEBUG THEN on_debug(c, p)
    ELSE [c EXCEPT !.error = "ValueError"]

\* Server.dispatch up to its end or to the suspension in wait_authentication.
dispatch(c, p) ==
    IF p.type = LOGIN_REQUEST THEN on_login_request(c, p.payload)
    ELSE IF wait_authentication(c) THEN dispatch_authenticated(c, p)
    ELSE [c EXCEPT !.service = "auth_wait", !.packet = p, !.auth_left = LoginTimeout]

\* Server.serve: the task runs until it suspends or ends.  serve(c) is the
\* loop from __anext__/recv, after_recv(c) is recv past its wait, and
\* after_dispatch(c) is the loop body past `await self.dispatch(packet)`.
RECURSIVE serve(_), after_recv(_), after_dispatch(_)
serve(c) ==
    IF ~has_packet(c.buf) THEN [c EXCEPT !.service = "recv_wait"]
    ELSE after_recv(c)

after_recv(c) ==
    LET r == get_packet(c.buf, c.processed, c.data_type)
    IN  IF r.ret.kind = "none" THEN Raise(c, "AssertionError")
        ELSE IF r.ret.kind = "ValueError" THEN Raise(c, "ValueError")
        ELSE LET c1 == [c EXCEPT !.buf = r.buf, !.processed = r.processed,
                                 !.service = "running"]
             IN  IF is_closing(c1) \/ r.ret.packet.type = END_OF_SESSION
                 THEN [c1 EXCEPT !.service = "done"]
                 ELSE after_dispatch(dispatch(c1, r.ret.packet))

after_dispatch(c) ==
    IF c.service \in { "failed", "auth_wait" } THEN c
    ELSE IF c.error = "None" THEN task_set_exception(c)
    ELSE serve(c)

\* Protocol.data_received: the pulse of _has_packet wakes the task waiting
\* in recv().
data_received(c, data) ==
    LET c1 == [c EXCEPT !.rx_elapsed = 0, !.buf = feed(@, data)]
    IN  IF has_packet(c1.buf) /\ c1.service = "recv_wait"
        THEN [c1 EXCEPT !.service = "woken"]
        ELSE IF has_packet(c1.buf) /\ c1.client = "login_wait"
        THEN [c1 EXCEPT !.client = "login_woken"]
        ELSE IF has_packet(c1.buf) /\ c1.client = "recv_wait"
        THEN [c1 EXCEPT !.client = "woken"]
        ELSE c1

(***************************************************************************)
(* client.py: Client, driven by connect() and the application's loop       *)
(* `async for packet in c`.                                                *)
(***************************************************************************)
\* Client.stop, then transport.close() (the finally of connect()).
stop(c) == transport_close(stop_keep_alive(send(c, LOGOUT_REQUEST, << >>)))

\* An exception leaves the body of connect(): its finally runs, and the
\* application's task ends with the exception.
ClientRaise(c, e) == [stop(c) EXCEPT !.client = "failed", !.client_exc = e]

\* The application's loop: __anext__ and recv(), packet after packet, until
\* the task suspends in recv() or the iteration ends and connect() exits.
\* iterate(c) is the loop from __anext__, after_wait(c) is recv past its wait.
RECURSIVE iterate(_), after_wait(_)
iterate(c) ==
    IF ~has_packet(c.buf) THEN [c EXCEPT !.client = "recv_wait"]
    ELSE after_wait(c)

after_wait(c) ==
    LET r == get_packet(c.buf, c.processed, c.data_type)
    IN  IF r.ret.kind = "none" THEN ClientRaise(c, "AssertionError")
        ELSE IF r.ret.kind = "ValueError" THEN ClientRaise(c, "ValueError")
        ELSE LET c1 == [c EXCEPT !.buf = r.buf, !.processed = r.processed]
             IN  IF is_closing(c1) \/ r.ret.packet.type = END_OF_SESSION
                 THEN [stop(c1) EXCEPT !.client = "stopped"]
                 ELSE iterate([c1 EXCEPT !.delivered = Append(@, r.ret.packet)])

\* Client.login past `packet = await self.recv()`, and on success (start()
\* returns, connect() yields) the application's loop.
login_reply(c) ==
    LET r == get_packet(c.buf, c.processed, c.data_type)
        p == r.ret.packet
        c1 == [c EXCEPT !.buf = r.buf, !.processed = r.processed]
    IN  IF r.ret.kind = "none" THEN ClientRaise(c, "AssertionError")
        ELSE IF r.ret.kind = "ValueError" THEN ClientRaise(c, "ValueError")
        ELSE IF p.type = LOGIN_ACCEPTED
        THEN IF Len(p.payload) < LoginAcceptedSize THEN ClientRaise(c1, "ValueError")
             ELSE LET login_accepted == LoginAcceptedFields(p.payload)
                      n == int(login_accepted.sequence_number)
                  IN  IF ~n.ok THEN ClientRaise(c1, "ValueError")
                      ELSE iterate([c1 EXCEPT !.session = login_accepted.session,
                                              !.sequence_number = n.value,
                                              !.login_accepted = << p.payload >>,
                                              !.client = "logged_in"])
        ELSE IF p.type = LOGIN_REJECTED
        THEN IF Len(p.payload) >= 1
                /\ p.payload[1] \in { NOT_AUTHORIZED, SESSION_NOT_AVAILABLE }
             THEN ClientRaise(c1, "LoginRejectedError")
             ELSE ClientRaise(c1, "ValueError")
        ELSE ClientRaise(c1, "ValueError")

\* Client.login up to the end of recv() or its suspension.
login(c) ==
    LET c1 == send(c, LOGIN_REQUEST,
                   LoginRequestBytes(Username, Password, c.session, c.sequence_number))
    IN  IF ~has_packet(c1.buf) THEN [c1 EXCEPT !.client = "login_wait"]
        ELSE login_reply(c1)

(***************************************************************************)
(* State.                                                                  *)
(***************************************************************************)
VARIABLES
    \* Stream: _buffer, _processed, data_type
    buf, processed, data_type,
    \* The stream harness: the packets encoded on the wire and the bytes that
    \* follow them, how many bytes of the wire were fed, the last call and
    \* its result, every packet returned so far, whether some call left the
    \* buffer holding bytes that are not yet a whole frame.
    sent, tail, pos, op, ret, out, sawPartial,
    \* Protocol, Server and their tasks (see the record c above)
    heartbeat_type, tx_elapsed, rx_elapsed, session, sequence_number, error,
    transport, written, keep_alive_task, keep_alive_sleep, authenticated,
    service, service_exc, packet, auth_left, handled, login_seen,
    client, client_exc, delivered, login_accepted,
    \* The peer and the clock: bytes the peer sent that are not yet delivered,
    \* the frames it sent, seconds since connection_made (up to one past
    \* login_timeout).
    pending, nsent, conn_elapsed

streamVars == << buf, processed, data_type >>
harnessVars == << sent, tail, pos, op, ret, out, sawPartial >>
connVars ==
    << heartbeat_type, tx_elapsed, rx_elapsed, session, sequence_number, error,
       transport, written, keep_alive_task, keep_alive_sleep, authenticated,
       service, service_exc, packet, auth_left, handled, login_seen,
       client, client_exc, delivered, login_accepted >>
peerVars == << pending, nsent, conn_elapsed >>
vars == << streamVars, harnessVars, connVars, peerVars >>

\* The connection as the record the operators above work on.
Conn ==
    [buf |-> buf, processed |-> processed, data_type |-> data_type,
     heartbeat_type |-> heartbeat_type, tx_elapsed |-> tx_elapsed,
     rx_elapsed |-> rx_elapsed, session |-> session,
     sequence_number |-> sequence_number, error |-> error,
     transport |-> transport, written |-> written,
     keep_alive_task |-> keep_alive_task, keep_alive_sleep |-> keep_alive_sleep,
     authenticated |-> authenticated, service |-> service,
     service_exc |-> service_exc, packet |-> packet, auth_left |-> auth_left,
     handled |-> handled, login_seen |-> login_seen,
     client |-> client, client_exc |-> client_exc, delivered |-> delivered,
     login_accepted |-> login_accepted]

\* The connection becomes c0 (evaluated once).
SetConn(c0) ==
    \E c \in { c0 } :
        /\ buf' = c.buf
        /\ processed' = c.processed
        /\ data_type' = c.data_type
        /\ heartbeat_type' = c.heartbeat_type
        /\ tx_elapsed' = c.tx_elapsed
        /\ rx_elapsed' = c.rx_elapsed
        /\ session' = c.session
        /\ sequence_number' = c.sequence_number
        /\ error' = c.error
        /\ transport' = c.transport
        /\ written' = c.written
        /\ keep_alive_task' = c.keep_alive_task
        /\ keep_alive_sleep' = c.keep_alive_sleep
        /\ authenticated' = c.authenticated
        /\ service' = c.service
        /\ service_exc' = c.service_exc
        /\ packet' = c.packet
        /\ auth_left' = c.auth_left
        /\ handled' = c.handled
        /\ login_seen' = c.login_seen
        /\ client' = c.client
        /\ client_exc' = c.client_exc
        /\ delivered' = c.delivered
        /\ login_accepted' = c.login_accepted

\* Protocol.__init__: last_tx_mills and last_rx_mills start at 0.00, so the
\* time elapsed since them starts beyond every limit.
ProtocolInit ==
    /\ buf = << >>
    /\ processed = 0
    /\ tx_elapsed = HeartbeatInterval + 1
    /\ rx_elapsed = HeartbeatTimeout + 1
    /\ session = << >>
    /\ sequence_number = 1
    /\ error = "None"
    /\ transport = "open"
    /\ written = << >>
    /\ keep_alive_task = "None"
    /\ keep_alive_sleep = 0

\* The harness, where it is not used.
HarnessIdle ==
    /\ sent = << >>
    /\ tail = << >>
    /\ pos = 0
    /\ op = "init"
    /\ ret = RetNone
    /\ out = << >>
    /\ sawPartial = FALSE

\* Server.__init__ and connection_made, or no server.
NoServer ==
    /\ authenticated = FALSE
    /\ service = "none"
    /\ service_exc = "None"
    /\ packet = NoPacket
    /\ auth_left = 0
    /\ handled = << >>
    /\ login_seen = << >>

NoClient ==
    /\ client = "none"
    /\ client_exc = "None"
    /\ delivered = << >>
    /\ login_accepted = << >>

NoPeer ==
    /\ pending = << >>
    /\ nsent = 0
    /\ conn_elapsed = 0

(***************************************************************************)
(* The stream harness: a wire is the encoding of up to MaxPackets packets  *)
(* followed by a tail; it is fed to one Stream in chunks of any size, with *)
(* feed, get_packet(data) and get_packets(data) called in any order.       *)
(***************************************************************************)
\* Sequences over S of length 0..n.
RECURSIVE SeqsUpTo(_, _)
SeqsUpTo(S, n) ==
    IF n = 0 THEN { << >> }
    ELSE LET shorter == SeqsUpTo(S, n - 1)
         IN  shorter \cup { Append(q, x) : q \in { r \in shorter : Len(r) = n - 1 }, x \in S }

\* Payloads of the packets on the wire; the last one reads as a whole frame.
PayloadChoices == { << >>, << 0, 1, SERVER_HEARTBEAT >> }
WireTypes == { SEQUENCED_DATA, SERVER_HEARTBEAT }
WirePackets == [type : WireTypes, payload : PayloadChoices]

\* A type byte outside PacketType.
UnknownType == CHOOSE t \in 0..255 : t \notin PacketType

\* Tails that are the beginning of a frame still to be completed.
TruncatedTails == { << >>, << 0, 2, SEQUENCED_DATA >> }
\* Tails that are no frame: a length field of 0, an unknown type byte.
MalformedTails == { << 0, 0, SERVER_HEARTBEAT >>, << 0, 1, UnknownType >> }
Tails == TruncatedTails \cup MalformedTails

RECURSIVE EncodeAll(_)
EncodeAll(ps) ==
    IF ps = << >> THEN << >>
    ELSE create_packet(Head(ps).type, Head(ps).payload) \o EncodeAll(Tail(ps))

Wire == EncodeAll(sent) \o tail

\* The next n bytes of the wire (none for n = 0: the call's data is None).
Chunk(n) == SubSeq(Wire, pos + 1, pos + n)

StreamInit ==
    /\ data_type \in { SEQUENCED_DATA, UNSEQUENCED_DATA }
    /\ heartbeat_type = SERVER_HEARTBEAT
    /\ ProtocolInit
    /\ NoServer
    /\ NoClient
    /\ NoPeer
    /\ sent \in SeqsUpTo(WirePackets, MaxPackets)
    /\ tail \in Tails
    /\ pos = 0
    /\ op = "init"
    /\ ret = RetNone
    /\ out = << >>
    /\ sawPartial = FALSE

\* The buffer holds bytes, and they are not yet a whole frame.
Partial(b) == b # << >> /\ ~has_packet(b)

\* stream.feed(data)
Feed(n) ==
    /\ pos + n <= Len(Wire)
    /\ buf' = feed(buf, Chunk(n))
    /\ pos' = pos + n
    /\ op' = "feed"
    /\ ret' = RetNone
    /\ sawPartial' = (sawPartial \/ Partial(buf'))
    /\ UNCHANGED << processed, data_type, sent, tail, out, connVars, peerVars >>

\* stream.get_packet(data)
GetPacket(n) ==
    /\ pos + n <= Len(Wire)
    /\ LET r == get_packet(feed(buf, Chunk(n)), processed, data_type)
       IN  /\ buf' = r.buf
           /\ processed' = r.processed
           /\ ret' = r.ret
           /\ out' = IF r.ret.kind = "packet" THEN Append(out, r.ret.packet) ELSE out
           /\ sawPartial' = (sawPartial \/ Partial(r.buf))
    /\ pos' = pos + n
    /\ op' = "get_packet"
    /\ UNCHANGED << data_type, sent, tail, connVars, peerVars >>

\* list(stream.get_packets(data))
GetPackets(n) ==
    /\ pos + n <= Len(Wire)
    /\ LET r == get_packets(feed(buf, Chunk(n)), processed, data_type)
       IN  /\ buf' = r.buf
           /\ processed' = r.processed
           /\ ret' = IF r.raised THEN RetError ELSE RetNone
           /\ out' = out \o r.packets
           /\ sawPartial' = (sawPartial \/ Partial(r.buf))
    /\ pos' = pos + n
    /\ op' = "get_packets"
    /\ UNCHANGED << data_type, sent, tail, connVars, peerVars >>

StreamNext ==
    \/ \E n \in 1..MaxChunk : Feed(n)
    \/ \E n \in 0..MaxChunk : GetPacket(n)
    \/ \E n \in 0..MaxChunk : GetPackets(n)

SpecStream == StreamInit /\ [][StreamNext]_vars

(***************************************************************************)
(* Claims about the frame reassembler.                                     *)
(***************************************************************************)
\* C1 (fragmentation transparency): when the wire is the encoding of valid
\* packets only, has been fed whole in chunks of any sizes and the stream was
\* drained with get_packets after the last chunk, the packets returned are
\* those a fresh stream returns from get_packets(wire) in one call.
C1_FragmentationTransparency ==
    (op = "get_packets" /\ tail = << >> /\ pos = Len(Wire))
        => out = get_packets(Wire, 0, data_type).packets

\* C1 witness: two packets, one with a payload, arrived in chunks one of
\* which ended inside a frame, and were both returned.
C1_Witness ==
    /\ op = "get_packets" /\ tail = << >> /\ pos = Len(Wire)
    /\ Len(sent) = 2 /\ sawPartial /\ Len(out) = 2
    /\ \E i \in 1..2 : Len(out[i].payload) > 0

\* Length on the wire of the k-th packet sent.
FrameLen(k) == HeaderSize + Len(sent[k].payload)

\* C10 (no over-consumption): at every get_packet call on a wire of valid
\* frames (possibly ending in an unfinished one), if the buffer holds less
\* than the whole frame at its front then has_packet is false, the call
\* returns None and leaves the buffer and the processed count as they were;
\* if the frame is whole the call returns that one packet with its full
\* payload and removes exactly 3 + payload_length bytes from the front.
C10_NoOverConsumption ==
    [][ (op' = "get_packet" /\ tail \in TruncatedTails) =>
            LET mid == feed(buf, SubSeq(Wire, pos + 1, pos'))
                k == Len(out) + 1
            IN  IF k <= Len(sent) /\ Len(mid) >= FrameLen(k)
                THEN /\ has_packet(mid)
                     /\ ret'.kind = "packet"
                     /\ ret'.packet.type = sent[k].type
                     /\ ret'.packet.payload = sent[k].payload
                     /\ Len(buf') = Len(mid) - (HeaderSize + Len(sent[k].payload))
                     /\ buf' = SubSeq(mid, FrameLen(k) + 1, Len(mid))
                     /\ Len(out') = Len(out) + 1
                ELSE /\ ~has_packet(mid)
                     /\ ret'.kind = "none"
                     /\ buf' = mid
                     /\ processed' = processed
                     /\ out' = out ]_vars

\* C10 witness: get_packet was called with the header and all but one byte
\* of the payload of a sent packet in the buffer, and returned None.
C10_Witness ==
    /\ tail \in TruncatedTails
    /\ op = "get_packet" /\ ret.kind = "none"
    /\ Len(out) < Len(sent)
    /\ Len(sent[Len(out) + 1].payload) > 0
    /\ Len(buf) = FrameLen(Len(out) + 1) - 1

\* The packets returned so far whose type is the stream's data type.
DataPacketsOut == { i \in 1..Len(out) : out[i].type = data_type }

\* C11 (processed-count accuracy): after any sequence of feed, get_packet and
\* get_packets calls, processed is the number of packets returned so far
\* whose type is the stream's data_type, packets of other types having left
\* it alone, and next_sequence_number is sequence_number plus that number.
C11_ProcessedCount ==
    /\ processed = Cardinality(DataPacketsOut)
    /\ received(Conn) = processed
    /\ next_sequence_number(Conn) = sequence_number + Cardinality(DataPacketsOut)

\* C11 witness: a stream configured for SequencedData returned a
\* ServerHeartbeat and a SequencedData packet and counted one.
C11_Witness ==
    /\ data_type = SEQUENCED_DATA
    /\ Len(out) = 2
    /\ { out[1].type, out[2].type } = { SERVER_HEARTBEAT, SEQUENCED_DATA }
    /\ processed = 1
    /\ next_sequence_number(Conn) = sequence_number + 1

\* C21 (packet invariant): every Packet returned by get_packet, whatever the
\* buffer held (a header whose length field is 0 included), has
\* length = len(payload) + 1.
C21_PacketInvariant ==
    \A i \in 1..Len(out) : out[i].length = Len(out[i].payload) + 1

\* The buffer b starts with a complete frame whose type byte is outside
\* PacketType.
UnknownFrameAtFront(b) == has_packet(b) /\ HeaderType(b) \notin PacketType

\* C24 (unknown type byte): a get_packet call that finds a complete frame
\* with an unknown type byte at the front of the buffer (after feeding its
\* data) fails with ValueError and leaves the buffer and the processed count
\* as they were; and from then on every step leaves that frame at the
\* front, the processed count and the packets returned unchanged.
C24_UnknownTypeByte ==
    [][ /\ op' = "get_packet" =>
               LET mid == feed(buf, SubSeq(Wire, pos + 1, pos'))
               IN  UnknownFrameAtFront(mid) =>
                       /\ ret'.kind = "ValueError"
                       /\ buf' = mid
                       /\ processed' = processed
                       /\ out' = out
        /\ UnknownFrameAtFront(buf) =>
               /\ UnknownFrameAtFront(buf')
               /\ SubSeq(buf', 1, Len(buf)) = buf
               /\ processed' = processed
               /\ out' = out
               /\ op' \in { "get_packet", "get_packets" } => ret'.kind = "ValueError" ]_vars

\* C24 witness: after every packet sent was returned, get_packet was called
\* with the frame of unknown type at the front of the buffer and failed.
C24_Witness ==
    /\ op = "get_packet" /\ ret.kind = "ValueError"
    /\ UnknownFrameAtFront(buf)
    /\ Len(sent) > 0 /\ Len(out) = Len(sent)
    /\ pos = Len(Wire)

(***************************************************************************)
(* One server connection and its peer.  The peer sends up to MaxSends      *)
(* frames, each delivered whole or in two pieces, and may close; the serve *)
(* task and the keep-alive task run between their suspension points; the   *)
(* clock ticks in seconds.                                                 *)
(***************************************************************************)
OtherText == << 120 >>

\* What the peer of a server may send.
LoginChoices ==
    { << Username, Password, << >>, 0 >>,
      << Username, Password, << >>, 1 >>,
      << Username, OtherText, << >>, 1 >>,
      << OtherText, Password, << >>, 1 >>,
      << Username, Password, OtherText, 1 >>,
      << Username, OtherText, OtherText, 1 >> }

ClientFrames ==
    { create_packet(LOGIN_REQUEST, LoginRequestBytes(l[1], l[2], l[3], l[4])) :
          l \in LoginChoices }
    \cup { create_packet(LOGIN_REQUEST, << >>),
           create_packet(DEBUG, << 1 >>),
           create_packet(UNSEQUENCED_DATA, << 1 >>),
           create_packet(CLIENT_HEARTBEAT, << >>),
           create_packet(LOGOUT_REQUEST, << >>),
           create_packet(END_OF_SESSION, << >>),
           create_packet(SEQUENCED_DATA, << 1 >>),
           create_packet(UnknownType, << >>) }

\* What the peer of a client may send.
ServerFrames ==
    { create_packet(LOGIN_ACCEPTED, LoginAcceptedBytes(<< >>, 1)),
      create_packet(LOGIN_ACCEPTED, LoginAcceptedBytes(OtherText, 12)),
      create_packet(LOGIN_ACCEPTED, << >>),
      create_packet(LOGIN_REJECTED, << NOT_AUTHORIZED >>),
      create_packet(LOGIN_REJECTED, << SESSION_NOT_AVAILABLE >>),
      create_packet(SERVER_HEARTBEAT, << >>),
      create_packet(SEQUENCED_DATA, << 1 >>),
      create_packet(DEBUG, << 1 >>),
      create_packet(END_OF_SESSION, << >>) }

\* The peer of a server is a client, and the other way round.
PeerFrames ==
    IF heartbeat_type = SERVER_HEARTBEAT THEN ClientFrames ELSE ServerFrames

ServerInit ==
    /\ data_type = UNSEQUENCED_DATA
    /\ heartbeat_type = SERVER_HEARTBEAT
    /\ ProtocolInit
    /\ authenticated = FALSE
    /\ service = "start"
    /\ service_exc = "None"
    /\ packet = NoPacket
    /\ auth_left = 0
    /\ handled = << >>
    /\ login_seen = << >>
    /\ NoClient
    /\ HarnessIdle
    /\ NoPeer

\* The peer sends a frame f and the transport delivers its first n bytes:
\* all of it, or FragmentSize bytes.
PeerSend ==
    /\ transport = "open"
    /\ pending = << >>
    /\ nsent < MaxSends
    /\ \E f \in PeerFrames :
         \E n \in { Min(FragmentSize, Len(f)), Len(f) } :
            /\ SetConn(data_received(Conn, SubSeq(f, 1, n)))
            /\ pending' = SubSeq(f, n + 1, Len(f))
    /\ nsent' = nsent + 1
    /\ UNCHANGED << conn_elapsed, harnessVars >>

\* The transport delivers the rest of the frame.
PeerSendRest ==
    /\ transport = "open"
    /\ pending # << >>
    /\ SetConn(data_received(Conn, pending))
    /\ pending' = << >>
    /\ UNCHANGED << nsent, conn_elapsed, harnessVars >>

\* The peer closes the connection.
PeerClose ==
    /\ transport = "open"
    /\ transport' = "lost"
    /\ pending' = << >>
    /\ UNCHANGED << streamVars, heartbeat_type, tx_elapsed, rx_elapsed, session,
                    sequence_number, error, written, keep_alive_task,
                    keep_alive_sleep, authenticated, service, service_exc, packet,
                    auth_left, handled, login_seen, client, client_exc, delivered,
                    login_accepted, nsent, conn_elapsed, harnessVars >>

\* The serve task created by connection_made runs for the first time.
ServeStart ==
    /\ service = "start"
    /\ SetConn(serve(Conn))
    /\ UNCHANGED << peerVars, harnessVars >>

\* The serve task resumes in recv() after the pulse of _has_packet.
ServeWake ==
    /\ service = "woken"
    /\ SetConn(after_recv(Conn))
    /\ UNCHANGED << peerVars, harnessVars >>

\* asyncio.wait_for(self._authenticated.wait(), self.login_timeout) ends:
\* with the flag set, or with TimeoutError once login_timeout has passed.
WaitAuthenticationEnds ==
    /\ service = "auth_wait"
    /\ authenticated \/ auth_left = 0
    /\ SetConn(IF authenticated
               THEN after_dispatch(
                        dispatch_authenticated([Conn EXCEPT !.service = "running"],
                                               packet))
               ELSE Raise(Conn, "TimeoutError"))
    /\ UNCHANGED << peerVars, harnessVars >>

\* The keep-alive task runs: when created, and after each sleep.
KeepAlive ==
    /\ \/ keep_alive_task = "ready"
       \/ keep_alive_task = "sleeping" /\ keep_alive_sleep = 0
    /\ SetConn(keep_alive(Conn))
    /\ UNCHANGED << peerVars, harnessVars >>

\* One second passes.
Tick ==
    /\ tx_elapsed' = Min(tx_elapsed + 1, HeartbeatInterval + 1)
    /\ rx_elapsed' = Min(rx_elapsed + 1, HeartbeatTimeout + 1)
    /\ conn_elapsed' = Min(conn_elapsed + 1, LoginTimeout + 1)
    /\ keep_alive_sleep' = Max(keep_alive_sleep - 1, 0)
    /\ auth_left' = Max(auth_left - 1, 0)
    /\ UNCHANGED << streamVars, heartbeat_type, session, sequence_number, error,
                    transport, written, keep_alive_task, authenticated, service,
                    service_exc, packet, handled, login_seen, client, client_exc,
                    delivered, login_accepted, pending, nsent, harnessVars >>

Next ==
    \/ PeerSend
    \/ PeerSendRest
    \/ PeerClose
    \/ ServeStart
    \/ ServeWake
    \/ WaitAuthenticationEnds
    \/ KeepAlive
    \/ Tick

Spec == ServerInit /\ [][Next]_vars

\* The event loop runs every task that can run, and time passes; the peer
\* owes nothing.  ServeStart and ServeWake are enabled exactly while the serve
\* task is created or woken, and each of them moves it on: weak fairness of
\* the two is that the task does not stay there for ever.
FairSpec ==
    /\ Spec
    /\ []<>(service # "start")
    /\ []<>(service # "woken")
    /\ WF_vars(WaitAuthenticationEnds)
    /\ WF_vars(KeepAlive)
    /\ WF_vars(Tick)

(***************************************************************************)
(* One client connection and its peer: connect() logs in, the application  *)
(* iterates over the packets, the peer sends up to MaxSends frames.        *)
(***************************************************************************)
ClientInit ==
    /\ data_type = SEQUENCED_DATA
    /\ heartbeat_type = CLIENT_HEARTBEAT
    /\ ProtocolInit
    /\ NoServer
    /\ client = "start"
    /\ client_exc = "None"
    /\ delivered = << >>
    /\ login_accepted = << >>
    /\ HarnessIdle
    /\ NoPeer

\* connect(): client.start(), that is Client.login.
ClientStart ==
    /\ client = "start"
    /\ SetConn(login(Conn))
    /\ UNCHANGED << peerVars, harnessVars >>

\* Client.login resumes in recv() after the pulse of _has_packet.
ClientLoginWake ==
    /\ client = "login_woken"
    /\ SetConn(login_reply(Conn))
    /\ UNCHANGED << peerVars, harnessVars >>

\* The application's loop resumes in recv() after the pulse of _has_packet.
ClientWake ==
    /\ client = "woken"
    /\ SetConn(after_wait(Conn))
    /\ UNCHANGED << peerVars, harnessVars >>

ClientNext ==
    \/ PeerSend
    \/ PeerSendRest
    \/ PeerClose
    \/ ClientStart
    \/ ClientLoginWake
    \/ ClientWake
    \/ Tick

SpecClient == ClientInit /\ [][ClientNext]_vars

(***************************************************************************)
(* Claims about the server connection (Spec, FairSpec).                    *)
(***************************************************************************)
\* The types of the frames written so far.
WrittenTypes == { written[i][3] : i \in 1..Len(written) }
\* The writes of a frame of the given type.
WritesOf(type) == { i \in 1..Len(written) : written[i][3] = type }

\* C2 (authentication gate): every call of a non-login handler
\* (on_unsequenced_data, on_logout_request, on_client_heartbeat, on_debug)
\* was made with the authenticated flag set, and on_unsequenced_data only
\* for an UnsequencedData packet, after LoginAccepted was sent.
C2_AuthenticationGate ==
    \A i \in 1..Len(handled) :
        /\ handled[i].authenticated
        /\ handled[i].handler = "on_unsequenced_data"
               => /\ handled[i].type = UNSEQUENCED_DATA
                  /\ LOGIN_ACCEPTED \in WrittenTypes

\* C2 witness: an UnsequencedData packet was dispatched on a connection that
\* is not authenticated; dispatch is held at the gate and no handler ran.
C2_Witness ==
    /\ service = "auth_wait" /\ ~authenticated
    /\ packet.type = UNSEQUENCED_DATA
    /\ handled = << >>

\* C3 (authentication decision): once the server has decoded a LoginRequest,
\* it has accepted (LoginAccepted sent, flag set) iff the username and the
\* password are the configured ones and the requested session is the
\* server's; otherwise it has sent LoginRejected with 'A' when the
\* credentials mismatch and with 'S' when only the session does.
C3_AuthenticationDecision ==
    login_seen # << >> =>
        LET l == login_seen[1]
            credentials == l.username = Username /\ l.password = Password
        IN  IF credentials /\ l.requested_session = session
            THEN /\ authenticated
                 /\ written[1][3] = LOGIN_ACCEPTED
                 /\ WritesOf(LOGIN_REJECTED) = { }
            ELSE /\ ~authenticated
                 /\ written = << create_packet(LOGIN_REJECTED,
                                   << IF credentials THEN SESSION_NOT_AVAILABLE
                                      ELSE NOT_AUTHORIZED >>) >>

\* C3 witness: a request with the right credentials and another session was
\* rejected with 'S'.
C3_Witness ==
    /\ login_seen # << >>
    /\ login_seen[1].username = Username /\ login_seen[1].password = Password
    /\ login_seen[1].requested_session # session
    /\ written = << create_packet(LOGIN_REJECTED, << SESSION_NOT_AVAILABLE >>) >>

\* C4 (LoginAccepted carries the server's state): after a successful login
\* the LoginAccepted written carries the server's session and the server's
\* sequence number, whatever the request asked for.
C4_AcceptedCarriesServerState ==
    authenticated =>
        written[1] = create_packet(LOGIN_ACCEPTED,
                                   LoginAcceptedBytes(session, sequence_number))

\* C6 (heartbeat timeout): on an authenticated connection whose heartbeat
\* task is running, once nothing was received for longer than
\* heartbeat_timeout the transport is eventually closed.
C6_HeartbeatTimeoutCloses ==
    (authenticated /\ keep_alive_task \in { "ready", "sleeping" }
        /\ rx_elapsed > HeartbeatTimeout)
        ~> (transport # "open")

\* C7 (login timeout at the gate): once the wait for authentication has
\* timed out, the serve task is over and the transport is eventually closed.
C7_LoginTimeoutCloses ==
    (service = "failed" /\ service_exc = "TimeoutError") ~> (transport # "open")

\* C8 (silent peer): a connection on which nothing has arrived for longer
\* than login_timeout since it was made is eventually closed, and neither
\* LoginAccepted nor LoginRejected is sent on it meanwhile.
C8_SilentPeerCloses ==
    /\ (nsent = 0 /\ conn_elapsed > LoginTimeout) ~> (transport # "open")
    /\ [](nsent = 0 => WrittenTypes \cap { LOGIN_ACCEPTED, LOGIN_REJECTED } = { })

\* C9 (rejected login): once a LoginRejected was written, it is the only one
\* and the last frame written, the transport was closed by the server, the
\* authenticated flag is not set, no heartbeat task exists and no
\* LoginAccepted was written; and so it stays.
C9_RejectedLogin ==
    WritesOf(LOGIN_REJECTED) # { } =>
        /\ WritesOf(LOGIN_REJECTED) = { Len(written) }
        /\ Len(written) = 1
        /\ transport = "closed"
        /\ ~authenticated
        /\ keep_alive_task = "None"
        /\ LOGIN_ACCEPTED \notin WrittenTypes

\* C9 witness: a login was rejected while a LoginRequest with the right
\* credentials, received after it, is in the buffer, and time has passed.
C9_Witness ==
    /\ WritesOf(LOGIN_REJECTED) # { }
    /\ has_packet(buf) /\ HeaderType(buf) = LOGIN_REQUEST
    /\ strip(LoginRequestFields(PySlice(buf, HeaderSize, Len(buf))).password) = Password
    /\ tx_elapsed > 0

\* C12 (close unblocks receivers): when the connection is closed while the
\* serve task is suspended in recv() with no complete packet buffered, the
\* task is eventually resumed (with the end of the iteration or an error).
C12_CloseUnblocksReceivers ==
    (transport # "open" /\ service = "recv_wait") ~> (service # "recv_wait")

\* The heartbeat frames in the log of writes.
HeartbeatsWritten == { i \in 1..Len(written) : IsHeartbeat(written[i]) }

\* C13 (close stops heartbeats): from a state in which the connection is
\* closed (by the server or by the peer), no step leaves the heartbeat task
\* running or writes a heartbeat.
C13_CloseStopsHeartbeats ==
    [][ transport # "open" =>
            /\ keep_alive_task' \notin { "ready", "sleeping" }
            /\ HeartbeatsWritten' = HeartbeatsWritten ]_vars

\* This step writes one heartbeat (logged while the log takes heartbeats)
\* and restarts the send clock.
HeartbeatSent ==
    /\ tx_elapsed' = 0
    /\ IF Cardinality(HeartbeatsWritten) >= MaxHeartbeats THEN written' = written
       ELSE written' = Append(written, create_packet(heartbeat_type, << >>))

\* C14 (heartbeats only when idle): every step that writes restarts the send
\* clock, and a run of the heartbeat task writes a heartbeat if the time
\* since the last send exceeds heartbeat_interval and writes nothing, leaving
\* the send clock alone, if it does not.
C14_HeartbeatsOnlyWhenIdle ==
    [][ /\ written' # written => tx_elapsed' = 0
        /\ KeepAlive =>
               IF tx_elapsed > HeartbeatInterval THEN HeartbeatSent
               ELSE written' = written /\ tx_elapsed' = tx_elapsed ]_vars

\* C14 witness: the heartbeat task has just run less than heartbeat_interval
\* after LoginAccepted was sent, and wrote nothing.
C14_Witness ==
    /\ keep_alive_task = "sleeping" /\ keep_alive_sleep = HeartbeatInterval
    /\ tx_elapsed > 0 /\ tx_elapsed <= HeartbeatInterval
    /\ Len(written) = 1 /\ written[1][3] = LOGIN_ACCEPTED

\* C17 (single login per connection): at most one LoginAccepted is ever
\* written on a connection, and once a LoginRequest has arrived whole on an
\* authenticated connection the connection is eventually closed.
C17_SingleLogin ==
    /\ [](Cardinality(WritesOf(LOGIN_ACCEPTED)) <= 1)
    /\ (authenticated /\ has_packet(buf) /\ HeaderType(buf) = LOGIN_REQUEST)
           ~> (transport # "open")

\* The packet types Server.dispatch has no handler for.
UnhandledTypes == { SEQUENCED_DATA, LOGIN_ACCEPTED, LOGIN_REJECTED, SERVER_HEARTBEAT }

\* C18 (unhandled packet type is fatal): once a packet of a type the server
\* does not handle has arrived whole on an authenticated connection, the
\* connection is eventually closed; and once dispatch has flagged such a
\* packet, no handler is called any more.
C18_UnhandledTypeFatal ==
    /\ (authenticated /\ has_packet(buf) /\ HeaderType(buf) \in UnhandledTypes)
           ~> (transport # "open")
    /\ [][error = "ValueError" => handled' = handled]_vars

\* C19 (in-order, lossless dispatch): on an open connection whose login was
\* dispatched without error, a complete packet that has arrived is
\* eventually taken from the buffer by the dispatch loop (unless the
\* connection is closed first).
C19_LosslessDispatch ==
    (authenticated /\ error = "None" /\ transport = "open"
        /\ has_packet(buf) /\ HeaderType(buf) \in PacketType)
        ~> (~has_packet(buf) \/ transport # "open")

\* The Debug frames the peer may send.
DebugFrames == { f \in ClientFrames : f[3] = DEBUG }

\* C20 (debug echo): a Debug packet that has arrived whole on a connection
\* whose login was accepted is eventually answered with a Debug packet of
\* the same payload unless the connection is closed first, and never more
\* Debug packets are written than frames were received.
C20_DebugEcho ==
    /\ \A f \in DebugFrames :
           (authenticated /\ PySlice(buf, 0, Len(f)) = f)
               ~> \/ \E i \in 1..Len(written) : written[i] = f
                  \/ transport # "open"
    /\ [](Cardinality(WritesOf(DEBUG)) <= nsent)

\* The frame at the front of the buffer is a whole LoginRequest that
\* Server.authenticate accepts.
ValidLoginBuffered ==
    /\ has_packet(buf) /\ HeaderType(buf) = LOGIN_REQUEST
    /\ PayloadLength(buf) = LoginRequestSize
    /\ LET f == LoginRequestFields(PySlice(buf, HeaderSize, HeaderSize + PayloadLength(buf)))
       IN  /\ strip(f.username) = Username
           /\ strip(f.password) = Password
           /\ strip(f.requested_session) = session
           /\ int(f.requested_sequence_number).ok

\* C22 (gate opens for queued traffic): when dispatch holds a non-login
\* packet at the gate and a valid LoginRequest has arrived before
\* login_timeout has elapsed, then (unless the connection is closed first)
\* the login is accepted and the held packet is handled.
C22_GateOpensForQueuedTraffic ==
    (service = "auth_wait" /\ auth_left > 0 /\ ValidLoginBuffered)
        ~> \/ authenticated /\ handled # << >>
           \/ transport # "open"

\* C23 (handshake before heartbeats): every ServerHeartbeat written on the
\* connection comes after a LoginAccepted written on it, and the heartbeat
\* task exists only on a connection whose authenticated flag is set.
C23_HandshakeBeforeHeartbeats ==
    /\ \A i \in 1..Len(written) :
           written[i][3] = SERVER_HEARTBEAT
               => \E j \in 1..(i - 1) : written[j][3] = LOGIN_ACCEPTED
    /\ keep_alive_task # "None" => authenticated

\* C23 witness: a ServerHeartbeat was written on the connection.
C23_Witness ==
    /\ SERVER_HEARTBEAT \in WrittenTypes
    /\ written[1][3] = LOGIN_ACCEPTED
    /\ keep_alive_task = "sleeping"

(***************************************************************************)
(* Claims about the client connection (SpecClient).                        *)
(***************************************************************************)
\* C5 (client adopts the accepted session): once Client.login has received
\* LoginAccepted, the client's session is the session field of that packet
\* with its space padding trimmed, and its sequence_number is the decimal
\* value of the sequence-number field: ("", 1) for session "" and number 1.
C5_ClientAdoptsSession ==
    login_accepted # << >> =>
        LET f == LoginAcceptedFields(login_accepted[1])
        IN  /\ session = strip(f.session)
            /\ sequence_number = DigitsValue(strip(f.sequence_number))

\* C15 (client heartbeat task): once Client.login has received LoginAccepted
\* and the application waits for packets, the client's heartbeat task is
\* running (so that an idle client goes on to write ClientHeartbeat).
C15_ClientHeartbeatTask ==
    (login_accepted # << >> /\ client = "recv_wait")
        => keep_alive_task \in { "ready", "sleeping" }

\* C16 (heartbeats are hidden from the application): no packet the
\* application's iteration has yielded is a ServerHeartbeat or a
\* ClientHeartbeat.
C16_HeartbeatsHidden ==
    \A i \in 1..Len(delivered) :
        delivered[i].type \notin { SERVER_HEARTBEAT, CLIENT_HEARTBEAT }

====
